---- MODULE Spec2Model ----
(***************************************************************************)
(* Model of main4.py, the Streamlit script that tracks the buses of one    *)
(* line of Rio de Janeiro.  One run of the script (one refresh cycle) is   *)
(* split in the steps the script executes in order: the sidebar (widgets   *)
(* and the resolution of the reference point), get_data, the pandas        *)
(* pipeline, the plot and table, and the rerun.  st.session_state is the   *)
(* only state that survives a rerun.                                       *)
(*                                                                         *)
(* Representation.  Text is a sequence of one-character strings.  A parsed *)
(* coordinate is an integer number of 1e-4 degrees, a distance an integer  *)
(* number of metres, a timestamp an integer number of milliseconds.  NaN   *)
(* and NaT are integers outside the range of every parsed value.           *)
(***************************************************************************)
EXTENDS Integers, Sequences, FiniteSets

\* Longest feed payload that get_data returns in the model.
MaxFeed == 2

NaN == -999999999
NaT == -999999998

(***************************************************************************)
(* Text helpers.                                                           *)
(***************************************************************************)
Digits == {"0", "1", "2", "3", "4", "5", "6", "7", "8", "9"}

DigitVal(c) ==
    CASE c = "0" -> 0 [] c = "1" -> 1 [] c = "2" -> 2 [] c = "3" -> 3
      [] c = "4" -> 4 [] c = "5" -> 5 [] c = "6" -> 6 [] c = "7" -> 7
      [] c = "8" -> 8 [] c = "9" -> 9

IsDigits(s) == \A i \in 1..Len(s) : s[i] \in Digits

RECURSIVE DigitsValue(_)
DigitsValue(s) ==
    IF s = <<>> THEN 0
    ELSE DigitsValue(SubSeq(s, 1, Len(s) - 1)) * 10 + DigitVal(s[Len(s)])

RECURSIVE Pow10(_)
Pow10(n) == IF n = 0 THEN 1 ELSE 10 * Pow10(n - 1)

IndexOf(s, c) ==
    IF \E i \in 1..Len(s) : s[i] = c
    THEN CHOOSE i \in 1..Len(s) : s[i] = c /\ \A j \in 1..(i - 1) : s[j] # c
    ELSE 0

\* The subsequence of df at the indices of keep, in the order of df.
RECURSIVE TakeFrom(_, _, _)
TakeFrom(df, keep, i) ==
    IF i > Len(df) THEN <<>>
    ELSE (IF i \in keep THEN <<df[i]>> ELSE <<>>) \o TakeFrom(df, keep, i + 1)

Take(df, keep) == TakeFrom(df, keep, 1)

Orderings(n) ==
    {p \in [1..n -> 1..n] : \A i, j \in 1..n : i # j => p[i] # p[j]}

(***************************************************************************)
(* The feed.                                                               *)
(***************************************************************************)
Str_neg22c9559 == <<"-", "2", "2", ",", "9", "5", "5", "9">>
Str_neg43c1789 == <<"-", "4", "3", ",", "1", "7", "8", "9">>
Str_neg22d9559 == <<"-", "2", "2", ".", "9", "5", "5", "9">>
Str_neg43d1789 == <<"-", "4", "3", ".", "1", "7", "8", "9">>
Str_neg23d05 == <<"-", "2", "3", ".", "0", "5">>
Str_neg43d30 == <<"-", "4", "3", ".", "3", "0">>
Str_abc == <<"a", "b", "c">>
Str_T1 == <<"2", "0", "0", "0", "0", "0", "0", "0">>
Str_T2 == <<"2", "0", "0", "2", "5", "0", "0", "0">>
Str_T3 == <<"2", "0", "0", "5", "0", "0", "0", "0">>

\* (latitude, longitude, datahora) as the feed delivers them: comma and dot
\* decimals, a latitude and a datahora that do not parse.
Sightings ==
    { <<Str_neg22c9559, Str_neg43c1789, Str_T1>>,
      <<Str_neg22d9559, Str_neg43d1789, Str_T2>>,
      <<Str_neg23d05, Str_neg43d30, Str_T2>>,
      <<Str_abc, Str_neg43d30, Str_T3>>,
      <<Str_neg23d05, Str_neg43d30, Str_abc>> }

Linha112 == <<"1", "1", "2">>
LinhaSV12 == <<"S", "V", "1", "2">>

RawRecord(l, o, s) ==
    [linha |-> l, ordem |-> o, latitude |-> s[1], longitude |-> s[2],
     datahora |-> s[3]]

\* Rows of the payload: vehicle A1 runs on line 112 and vehicle B2 on line
\* SV12, each with every sighting.
RawRecords ==
    { RawRecord(Linha112, "A1", s) : s \in Sightings }
      \cup { RawRecord(LinhaSV12, "B2", s) : s \in Sightings }

Feeds == UNION { [1..n -> RawRecords] : n \in 0..MaxFeed }

\* What the user types in "Qual a linha?".
Queries == { <<"1", "2">>, <<"1", ".", "2">>, <<"s", "v">> }

\* value="112" of the text input.
LinhaPadrao == <<"1", "1", "2">>

(***************************************************************************)
(* pandas and numpy operations used by the script.                         *)
(***************************************************************************)
\* One pattern character against one text character: "." is the regular
\* expression wildcard, every other character of the model's alphabet
\* stands for itself.
re_match_char(p, c) == p = "." \/ p = c

\* Series.str.contains(pat, na=False): regex defaults to True, so the
\* pattern is searched for as a regular expression (re.search).
str_contains(s, pat) ==
    \E off \in 0..Len(s) :
        /\ off + Len(pat) <= Len(s)
        /\ \A i \in 1..Len(pat) : re_match_char(pat[i], s[off + i])

\* Series.str.replace(old, new) for a one-character old: every occurrence.
str_replace(s, old, new) ==
    [i \in 1..Len(s) |-> IF s[i] = old THEN new ELSE s[i]]

\* pd.to_numeric(errors='coerce') on text: sign, digits, optional fraction.
\* The value is returned in 1e-4 degrees; anything else is NaN.
to_numeric(s) ==
    LET neg == Len(s) > 0 /\ s[1] = "-"
        body == IF neg THEN Tail(s) ELSE s
        dot == IndexOf(body, ".")
        ip == IF dot = 0 THEN body ELSE SubSeq(body, 1, dot - 1)
        fr == IF dot = 0 THEN <<>> ELSE SubSeq(body, dot + 1, Len(body))
        fp == IF Len(fr) > 4 THEN SubSeq(fr, 1, 4) ELSE fr
        ok == Len(ip) > 0 /\ IsDigits(ip) /\ IsDigits(fr)
        mag == DigitsValue(ip) * 10000 + DigitsValue(fp) * Pow10(4 - Len(fp))
    IN  IF ok THEN (IF neg THEN 0 - mag ELSE mag) ELSE NaN

\* pd.to_datetime(unit='ms', errors='coerce'): milliseconds since the epoch,
\* NaT when the value is not a number.
to_datetime(s) ==
    IF Len(s) > 0 /\ IsDigits(s) THEN DigitsValue(s) ELSE NaT

\* pd.Timedelta(hours=3) in milliseconds.
Timedelta3h == 3 * 3600 * 1000

\* datahora_utc - pd.Timedelta(hours=3); NaT stays NaT.
AjusteFuso(t) == IF t = NaT THEN NaT ELSE t - Timedelta3h

\* Position in a descending sort_values(by='datahora'): NaT goes last.
DatahoraNaoDepois(a, b) == b = NaT \/ (a # NaT /\ a >= b)

\* Points of the model, in 1e-4 degrees.
Botafogo == [lat |-> -229559, lon |-> -431789]
RioBranco == [lat |-> -228969, lon |-> -431803]
Dispositivo == [lat |-> -230400, lon |-> -432900]
Longe == [lat |-> -230500, lon |-> -433000]

\* haversine_distance at the points of the model: the value of
\* R * 2 * arctan2(sqrt(a), sqrt(1 - a)) with R = 6371 and
\* a = sin(dlat/2)^2 + cos(lat1) * cos(lat2) * sin(dlon/2)^2, in metres
\* (rounded to the metre).  First point: the reference; second: the bus.
haversine_distance(lat1, lon1, lat2, lon2) ==
    LET p1 == [lat |-> lat1, lon |-> lon1]
        p2 == [lat |-> lat2, lon |-> lon2]
    IN  CASE p1 = p2 -> 0
          [] p1 = Botafogo /\ p2 = Longe -> 16221
          [] p1 = RioBranco /\ p2 = Botafogo -> 6562
          [] p1 = RioBranco /\ p2 = Longe -> 20976
          [] p1 = Dispositivo /\ p2 = Botafogo -> 14723
          [] p1 = Dispositivo /\ p2 = Longe -> 1511
          [] p1 = Longe /\ p2 = Botafogo -> 16221

\* df_realtime[df_realtime['linha'].astype(str).str.contains(linha_desejada)]
FiltraLinha(df, linha) ==
    Take(df, {i \in 1..Len(df) : str_contains(df[i].linha, linha)})

\* "Tratamento de tipos" and "ajuste de fuso horario" of one row.
TrataLinha(r) ==
    [linha |-> r.linha, ordem |-> r.ordem,
     latitude |-> to_numeric(str_replace(r.latitude, ",", ".")),
     longitude |-> to_numeric(str_replace(r.longitude, ",", ".")),
     datahora |-> AjusteFuso(to_datetime(r.datahora))]

RECURSIVE TrataTipos(_)
TrataTipos(df) ==
    IF df = <<>> THEN <<>> ELSE <<TrataLinha(Head(df))>> \o TrataTipos(Tail(df))

\* df_linha.dropna(subset=['latitude', 'longitude'])
dropna(df) ==
    Take(df, {i \in 1..Len(df) : df[i].latitude # NaN /\ df[i].longitude # NaN})

\* df in the order of the index permutation p.
Reordena(df, p) == Take([i \in 1..Len(df) |-> df[p[i]]], 1..Len(df))

\* df_linha.sort_values(by='datahora', ascending=False): the sort is not
\* stable, so every descending order (NaT last) is a possible result.
sort_values_datahora(df) ==
    { Reordena(df, p) : p \in
        { q \in Orderings(Len(df)) :
            \A i, j \in 1..Len(df) :
                i < j => DatahoraNaoDepois(df[q[i]].datahora, df[q[j]].datahora) } }

\* Variant: no deduplication.
drop_duplicates_nenhum(df) == df

\* Variant: keep='last'.
drop_duplicates_last(df) ==
    Take(df, {i \in 1..Len(df) :
                \A j \in (i + 1)..Len(df) : df[j].ordem # df[i].ordem})

\* df_linha.drop_duplicates(subset=['ordem'], keep='first')
drop_duplicates(df) ==
    Take(df, {i \in 1..Len(df) : \A j \in 1..(i - 1) : df[j].ordem # df[i].ordem})

\* df_linha['distancia_km'] = haversine_distance(user_lat, user_lon, ...)
RECURSIVE CalculaDistancia(_, _, _)
CalculaDistancia(df, lat, lon) ==
    IF df = <<>> THEN <<>>
    ELSE <<[linha |-> Head(df).linha, ordem |-> Head(df).ordem,
            latitude |-> Head(df).latitude, longitude |-> Head(df).longitude,
            datahora |-> Head(df).datahora,
            distancia_km |-> haversine_distance(lat, lon, Head(df).latitude,
                                                Head(df).longitude)]>>
         \o CalculaDistancia(Tail(df), lat, lon)

\* Variant: the comparison with the radius inverted.
FiltraRaioInvertido(df, raio) ==
    Take(df, {i \in 1..Len(df) : df[i].distancia_km >= raio})

\* df_linha[df_linha['distancia_km'] <= raio_km]
FiltraRaio(df, raio) ==
    Take(df, {i \in 1..Len(df) : df[i].distancia_km <= raio})

\* df_display.sort_values('distancia_km'): every ascending order.
sort_values_distancia(df) ==
    { Reordena(df, p) : p \in
        { q \in Orderings(Len(df)) :
            \A i, j \in 1..Len(df) :
                i < j => df[q[i]].distancia_km <= df[q[j]].distancia_km } }

(***************************************************************************)
(* Widgets and collaborators.                                              *)
(***************************************************************************)
Browser == "Localizacao Automatica (Browser)"
Endereco == "Endereco (Geocodificacao)"
Coordenadas == "Coordenadas (Lat/Lon)"
\* location_source is not assigned when the checkbox is off.
Indefinido == "(indefinido)"

\* Values of the geolocation component; Nenhum is Python's None.
Nenhum == [status |-> "None"]
Pending == [status |-> "pending"]
ErroGeo == [status |-> "error", error |-> "Permissao negada"]
SucessoGeo == [status |-> "success", latitude |-> Dispositivo.lat,
               longitude |-> Dispositivo.lon]
ValoresComponente == {Nenhum, Pending, ErroGeo, SucessoGeo}

\* Results of geocode_address: a location, None, "TIMEOUT", "SERVICE_ERROR".
LocNone == [tipo |-> "None"]
LocEncontrado == [tipo |-> "Location", latitude |-> RioBranco.lat,
                  longitude |-> RioBranco.lon]
ResultadosGeocode ==
    {LocEncontrado, LocNone, [tipo |-> "TIMEOUT"], [tipo |-> "SERVICE_ERROR"]}

EnderecoPadrao == "Av. Rio Branco, 1 - Centro, Rio de Janeiro"
EnderecosDigitados == {EnderecoPadrao, ""}

\* Values typed in the two number_input widgets.
CoordenadasDigitadas == {Botafogo, Longe}

\* Positions of the slider "Raio de busca (km)", in metres.
Raios == {2000, 20000}
RaioPadrao == 2000

\* Outcomes of requests.get(url) in get_data.
Respostas ==
    { [tipo |-> "json", corpo |-> f] : f \in Feeds }
      \cup { [tipo |-> "status", corpo |-> <<>>],
             [tipo |-> "excecao", corpo |-> <<>>] }

AvisoFallback == <<"warning", "Usando coordenadas padrao de fallback (Botafogo) e sem filtro de proximidade.">>

(***************************************************************************)
(* State.                                                                  *)
(***************************************************************************)
VARIABLES
    geo_result,               \* st.session_state.geo_result
    session_location_source,  \* st.session_state.location_source
    pc,                       \* next step of the running script
    linha_desejada, usar_localizacao, location_source, raio_km,
    user_lat, user_lon, localizacao_sucesso,
    componente,               \* value returned by get_browser_location()
    sidebar,                  \* messages written to st.sidebar
    data,                     \* value returned by get_data
    df_linha, df_filtrada,
    tem_distancia,            \* the column distancia_km exists
    msg_filtro,
    msgs,                     \* messages written to the main area
    df_display,               \* rows of st.dataframe
    resultado                 \* how the plotting block ended

sessao == <<geo_result, session_location_source>>
entradas == <<linha_desejada, usar_localizacao, location_source, raio_km,
              user_lat, user_lon, localizacao_sucesso, componente, sidebar>>
quadros == <<df_linha, df_filtrada, tem_distancia, msg_filtro>>
vars == <<sessao, pc, entradas, data, quadros, msgs, df_display, resultado>>

DataNone == [nulo |-> TRUE, linhas |-> <<>>]

\* Truth value of `data` in `if data:`.
Truthy(d) == ~d.nulo /\ Len(d.linhas) > 0

Init ==
    /\ geo_result = Pending
    /\ session_location_source = Browser
    /\ pc = "sidebar"
    /\ linha_desejada = LinhaPadrao
    /\ usar_localizacao = TRUE
    /\ location_source = Indefinido
    /\ raio_km = RaioPadrao
    /\ user_lat = Botafogo.lat
    /\ user_lon = Botafogo.lon
    /\ localizacao_sucesso = TRUE
    /\ componente = Nenhum
    /\ sidebar = {}
    /\ data = DataNone
    /\ df_linha = <<>>
    /\ df_filtrada = <<>>
    /\ tem_distancia = FALSE
    /\ msg_filtro = ""
    /\ msgs = {}
    /\ df_display = <<>>
    /\ resultado = "nenhum"

(***************************************************************************)
(* The sidebar, one action per branch of the location logic.               *)
(***************************************************************************)
\* Checkbox "Filtrar por localizacao?" off: the whole block is skipped.
SidebarSemLocalizacao(linha) ==
    /\ pc = "sidebar"
    /\ linha_desejada' = linha
    /\ usar_localizacao' = FALSE
    /\ UNCHANGED <<sessao, location_source, raio_km, user_lat, user_lon,
                   localizacao_sucesso, componente, sidebar>>
    /\ pc' = "fetch"
    /\ UNCHANGED <<data, quadros, msgs, df_display, resultado>>

\* Variant: a pending value of the component is stored too.
AtualizaGeoResultSempre(result, stored) ==
    IF result # Nenhum THEN result ELSE stored

\* `if geo_result and geo_result.get('status') != 'pending'`: the value
\* kept in st.session_state.geo_result.
AtualizaGeoResult(result, stored) ==
    IF result # Nenhum /\ result.status # "pending" THEN result ELSE stored

SidebarBrowser(linha, raio, result) ==
    /\ pc = "sidebar"
    /\ linha_desejada' = linha
    /\ usar_localizacao' = TRUE
    /\ location_source' = Browser
    /\ session_location_source' = Browser
    /\ raio_km' = raio
    /\ componente' = result
    /\ geo_result' = AtualizaGeoResult(result, geo_result)
    /\ IF geo_result'.status = "success"
       THEN /\ user_lat' = geo_result'.latitude
            /\ user_lon' = geo_result'.longitude
            /\ localizacao_sucesso' = TRUE
            /\ sidebar' = {<<"success", "Localizacao Automatica obtida">>}
       ELSE /\ user_lat' = Botafogo.lat
            /\ user_lon' = Botafogo.lon
            /\ localizacao_sucesso' = FALSE
            /\ sidebar' =
                 (IF geo_result'.status = "error"
                  THEN {<<"error", "Erro ao obter localizacao">>}
                  ELSE {<<"info", "Aguardando permissao do navegador para localizacao...">>})
                 \cup {AvisoFallback}
    /\ pc' = "fetch"
    /\ UNCHANGED <<data, quadros, msgs, df_display, resultado>>

SidebarCoordenadas(linha, raio, ponto) ==
    /\ pc = "sidebar"
    /\ linha_desejada' = linha
    /\ usar_localizacao' = TRUE
    /\ location_source' = Coordenadas
    /\ session_location_source' = Coordenadas
    /\ raio_km' = raio
    /\ geo_result' = Pending
    /\ user_lat' = ponto.lat
    /\ user_lon' = ponto.lon
    /\ sidebar' = {<<"success", "Usando coordenadas">>}
    /\ pc' = "fetch"
    /\ UNCHANGED <<localizacao_sucesso, componente>>
    /\ UNCHANGED <<data, quadros, msgs, df_display, resultado>>

SidebarEndereco(linha, raio, endereco_input, loc) ==
    /\ pc = "sidebar"
    /\ endereco_input = "" => loc = LocNone   \* geocode_address is not called
    /\ linha_desejada' = linha
    /\ usar_localizacao' = TRUE
    /\ location_source' = Endereco
    /\ session_location_source' = Endereco
    /\ raio_km' = raio
    /\ geo_result' = Pending
    /\ IF endereco_input # "" /\ loc.tipo = "Location"
       THEN /\ user_lat' = loc.latitude
            /\ user_lon' = loc.longitude
            /\ localizacao_sucesso' = TRUE
            /\ sidebar' = {<<"success", "Endereco encontrado">>}
       ELSE /\ user_lat' = Botafogo.lat
            /\ user_lon' = Botafogo.lon
            /\ localizacao_sucesso' = FALSE
            /\ sidebar' =
                 (CASE endereco_input = "" ->
                         {<<"info", "Aguardando endereco para geocodificacao...">>}
                    [] endereco_input # "" /\ loc.tipo \in {"TIMEOUT", "SERVICE_ERROR"} ->
                         {<<"error", "Erro no servico de geocodificacao. Tente outro endereco.">>}
                    [] OTHER ->
                         {<<"warning", "Endereco nao encontrado. Tente ser mais especifico.">>})
                 \cup {AvisoFallback}
    /\ pc' = "fetch"
    /\ UNCHANGED componente
    /\ UNCHANGED <<data, quadros, msgs, df_display, resultado>>

(***************************************************************************)
(* get_data                                                                *)
(***************************************************************************)
\* The fetched value: response.json() on status 200, None otherwise.
RespostaData(resposta) ==
    IF resposta.tipo = "json"
    THEN [nulo |-> FALSE, linhas |-> resposta.corpo]
    ELSE DataNone

GetData ==
    /\ pc = "fetch"
    /\ \E resposta \in Respostas :
          /\ data' = RespostaData(resposta)
          /\ msgs' = CASE resposta.tipo = "json" -> {}
                       [] resposta.tipo = "status" ->
                            {<<"warning", "Erro ao buscar dados da API. Codigo">>}
                       [] OTHER -> {<<"error", "Erro de conexao com a API">>}
    /\ pc' = "pipeline"
    /\ UNCHANGED <<sessao, entradas, quadros, df_display, resultado>>

(***************************************************************************)
(* Main logic: line filter, types, deduplication, location filter.         *)
(***************************************************************************)
\* Variant: the branch does not look at localizacao_sucesso.
FiltroManualSemSucesso(usar, source, sucesso) ==
    usar /\ source # Browser

\* Condition of the branch for geocoding or manual coordinates.
FiltroManual(usar, source, sucesso) ==
    usar /\ source # Browser /\ sucesso

\* Condition of the branch for the automatic location.
FiltroAutomatico(usar, source, geo) ==
    usar /\ source = Browser /\ geo.status = "success"

Pipeline ==
    /\ pc = "pipeline"
    /\ IF ~Truthy(data)
       THEN /\ msgs' = msgs \cup {<<"error", "Erro ao obter dados da API. Tente novamente mais tarde.">>}
            /\ pc' = "fim"
            /\ UNCHANGED quadros
       ELSE LET filtrado == FiltraLinha(data.linhas, linha_desejada) IN
            IF filtrado = <<>>
            THEN /\ msgs' = msgs \cup {<<"warning", "Nao ha dados disponiveis para a linha">>}
                 /\ pc' = "fim"
                 /\ UNCHANGED quadros
            ELSE \E ordenado \in sort_values_datahora(dropna(TrataTipos(filtrado))) :
                 LET unicos == drop_duplicates(ordenado)
                     medido == CalculaDistancia(unicos, user_lat, user_lon)
                 IN  /\ pc' = "plot"
                     /\ IF FiltroManual(usar_localizacao, location_source,
                                        localizacao_sucesso)
                        THEN /\ df_linha' = medido
                             /\ df_filtrada' = FiltraRaio(medido, raio_km)
                             /\ tem_distancia' = TRUE
                             /\ msg_filtro' = "onibus unicos num raio"
                             /\ msgs' = msgs
                        ELSE IF FiltroAutomatico(usar_localizacao, location_source,
                                                 geo_result)
                        THEN /\ df_linha' = medido
                             /\ df_filtrada' = FiltraRaio(medido, raio_km)
                             /\ tem_distancia' = TRUE
                             /\ msg_filtro' = "onibus unicos num raio (via localizacao automatica)"
                             /\ msgs' = msgs
                        ELSE /\ df_linha' = unicos
                             /\ df_filtrada' = unicos
                             /\ tem_distancia' = FALSE
                             /\ msg_filtro' = "todos os onibus da linha"
                             /\ msgs' = IF usar_localizacao
                                        THEN msgs \cup {<<"warning", "O filtro por proximidade nao foi aplicado">>}
                                        ELSE msgs
    /\ UNCHANGED <<sessao, entradas, data, df_display, resultado>>

(***************************************************************************)
(* Plot and table.                                                         *)
(***************************************************************************)
\* df_filtrada['datahora'].max() is NaT when every datahora is NaT, and
\* NaT.strftime raises ValueError.
TempoRecenteFalha(df) == \A i \in 1..Len(df) : df[i].datahora = NaT

\* hover_data of px.scatter_mapbox and sort_values('distancia_km') name the
\* column distancia_km whenever usar_localizacao is set; both raise when
\* the column does not exist.
ColunaAusente(usar, tem) == usar /\ ~tem

Plot ==
    /\ pc = "plot"
    /\ pc' = "fim"
    /\ IF df_filtrada = <<>>
       THEN /\ msgs' = msgs \cup {<<"warning", "Nenhum onibus encontrado dentro da area de busca ou dados indisponiveis.">>}
            /\ resultado' = "vazio"
            /\ df_display' = <<>>
       ELSE /\ msgs' = msgs \cup {<<"info", msg_filtro>>}
            /\ IF TempoRecenteFalha(df_filtrada)
                  \/ ColunaAusente(usar_localizacao, tem_distancia)
               THEN /\ resultado' = "excecao"
                    /\ df_display' = <<>>
               ELSE /\ resultado' = "renderizado"
                    /\ IF usar_localizacao
                       THEN df_display' \in sort_values_distancia(df_filtrada)
                       ELSE df_display' = df_filtrada
    /\ UNCHANGED <<sessao, entradas, data, quadros>>

(***************************************************************************)
(* st.rerun(): the script starts again; only the session state is kept.    *)
(***************************************************************************)
Rerun ==
    /\ pc = "fim"
    /\ pc' = "sidebar"
    /\ linha_desejada' = LinhaPadrao
    /\ usar_localizacao' = TRUE
    /\ location_source' = Indefinido
    /\ raio_km' = RaioPadrao
    /\ user_lat' = Botafogo.lat
    /\ user_lon' = Botafogo.lon
    /\ localizacao_sucesso' = TRUE
    /\ componente' = Nenhum
    /\ sidebar' = {}
    /\ data' = DataNone
    /\ df_linha' = <<>>
    /\ df_filtrada' = <<>>
    /\ tem_distancia' = FALSE
    /\ msg_filtro' = ""
    /\ msgs' = {}
    /\ df_display' = <<>>
    /\ resultado' = "nenhum"
    /\ UNCHANGED sessao

Next ==
    \/ \E linha \in Queries : SidebarSemLocalizacao(linha)
    \/ \E linha \in Queries, raio \in Raios, result \in ValoresComponente :
          SidebarBrowser(linha, raio, result)
    \/ \E linha \in Queries, raio \in Raios, ponto \in CoordenadasDigitadas :
          SidebarCoordenadas(linha, raio, ponto)
    \/ \E linha \in Queries, raio \in Raios, endereco_input \in EnderecosDigitados,
          loc \in ResultadosGeocode :
          SidebarEndereco(linha, raio, endereco_input, loc)
    \/ GetData
    \/ Pipeline
    \/ Plot
    \/ Rerun

Spec == Init /\ [][Next]_vars

(***************************************************************************)
(* Properties.                                                             *)
(***************************************************************************)
\* The pandas pipeline of the running cycle has produced df_filtrada.
PipelineFeito == pc = "plot" \/ (pc = "fim" /\ resultado # "nenhum")

\* Rows of the payload that match the line and have both coordinates.
LinhasValidas == dropna(TrataTipos(FiltraLinha(data.linhas, linha_desejada)))

\* q occurs in s as a literal substring, compared character by character.
SubstringLiteral(s, q) ==
    \E off \in 0..Len(s) :
        /\ off + Len(q) <= Len(s)
        /\ \A i \in 1..Len(q) : s[off + i] = q[i]

\* C1: the result set of a cycle, filtered by proximity or not, holds at
\* most one row per vehicle identity (ordem).
C1_UmPorOrdem ==
    \A i, j \in 1..Len(df_filtrada) :
        i # j => df_filtrada[i].ordem # df_filtrada[j].ordem

\* The payload had two valid rows of one vehicle and the vehicle is shown.
C1_Witness ==
    /\ PipelineFeito
    /\ LET validas == LinhasValidas IN
       \E i, j \in 1..Len(validas), k \in 1..Len(df_filtrada) :
          /\ i # j
          /\ validas[i].ordem = validas[j].ordem
          /\ df_filtrada[k].ordem = validas[i].ordem

\* C2: for every vehicle with line-matching rows with valid coordinates,
\* deduplication keeps exactly one row and its timestamp is the greatest
\* parsed timestamp among those rows.
C2_MaisRecente ==
    PipelineFeito =>
        LET validas == LinhasValidas IN
        \A k \in 1..Len(validas) :
            /\ Cardinality({i \in 1..Len(df_linha) :
                              df_linha[i].ordem = validas[k].ordem}) = 1
            /\ \A i \in 1..Len(df_linha) :
                  (df_linha[i].ordem = validas[k].ordem
                     /\ validas[k].datahora # NaT)
                  => (df_linha[i].datahora # NaT
                        /\ df_linha[i].datahora >= validas[k].datahora)

\* A vehicle seen at T1 < T2, the older row first in the payload, is kept
\* with T2 (shifted by -3 h).
C2_Witness ==
    /\ PipelineFeito
    /\ LET validas == LinhasValidas IN
       \E a, b \in 1..Len(validas), i \in 1..Len(df_linha) :
          /\ validas[a].ordem = validas[b].ordem
          /\ validas[a].datahora # NaT
          /\ validas[b].datahora # NaT
          /\ validas[a].datahora < validas[b].datahora
          /\ a < b
          /\ df_linha[i].ordem = validas[a].ordem
          /\ df_linha[i].datahora = validas[b].datahora

\* C3: every row of the result set has a parsed latitude, a parsed
\* longitude and a parsed timestamp.
C3_SemInvalidos ==
    \A i \in 1..Len(df_filtrada) :
        /\ df_filtrada[i].latitude # NaN
        /\ df_filtrada[i].longitude # NaN
        /\ df_filtrada[i].datahora # NaT

\* C4: a cycle that produced a non-empty result set renders it (map and
\* table) and does not abort, whatever the location settings and the
\* outcome of the resolution of the reference point.  Stated for result
\* sets with a parsed timestamp, whose "ultimo sinal" metric can be shown.
C4_SempreRenderiza ==
    (pc = "fim" /\ df_filtrada # <<>> /\ ~TempoRecenteFalha(df_filtrada))
        => resultado = "renderizado"

\* The resolution of the reference point did not succeed in this cycle.
ResolucaoFalhou ==
    /\ pc # "sidebar"
    /\ usar_localizacao
    /\ \/ location_source = Browser /\ geo_result.status \in {"error", "pending"}
       \/ /\ location_source = Endereco
          /\ sidebar \cap
               { <<"info", "Aguardando endereco para geocodificacao...">>,
                 <<"error", "Erro no servico de geocodificacao. Tente outro endereco.">>,
                 <<"warning", "Endereco nao encontrado. Tente ser mais especifico.">> } # {}

\* C5: when the resolution of the reference point fails, no distance is
\* computed (the fallback coordinates are not a filter centre), the result
\* set is the whole deduplicated set of the line, and a pending device
\* location is reported in the sidebar as waiting, with no error message.
C5_SemFiltroNaFalha ==
    /\ (ResolucaoFalhou /\ PipelineFeito) =>
          /\ ~tem_distancia
          /\ df_filtrada = df_linha
          /\ LET validas == LinhasValidas IN
             \A k \in 1..Len(validas) :
                \E i \in 1..Len(df_filtrada) :
                    df_filtrada[i].ordem = validas[k].ordem
    /\ (pc # "sidebar" /\ usar_localizacao /\ location_source = Browser
          /\ geo_result.status = "pending") =>
          /\ <<"info", "Aguardando permissao do navegador para localizacao...">> \in sidebar
          /\ \A m \in sidebar : m[1] # "error"

\* Geocoding failed and a bus farther from Botafogo than the radius is kept.
C5_Witness ==
    /\ ResolucaoFalhou
    /\ PipelineFeito
    /\ location_source = Endereco
    /\ user_lat = Botafogo.lat
    /\ \E i \in 1..Len(df_filtrada) :
          haversine_distance(Botafogo.lat, Botafogo.lon, df_filtrada[i].latitude,
                             df_filtrada[i].longitude) > raio_km

\* C6: a fetch that succeeds with an empty list gives an empty result set
\* and is not reported as an error.
C6_FeedVazioNaoEhErro ==
    (pc = "fim" /\ ~data.nulo /\ data.linhas = <<>>) =>
        /\ df_filtrada = <<>>
        /\ resultado # "excecao"
        /\ \A m \in msgs : m[1] # "error"

\* C7: when the proximity filter is applied, every row of the result set
\* carries the distance to the reference point and that distance is within
\* the radius; a deduplicated row is in the result set exactly when its
\* distance is within the radius.
C7_DentroDoRaio ==
    (PipelineFeito /\ tem_distancia) =>
        /\ \A i \in 1..Len(df_filtrada) :
              /\ df_filtrada[i].distancia_km =
                    haversine_distance(user_lat, user_lon, df_filtrada[i].latitude,
                                       df_filtrada[i].longitude)
              /\ df_filtrada[i].distancia_km <= raio_km
        /\ \A k \in 1..Len(df_linha) :
              (haversine_distance(user_lat, user_lon, df_linha[k].latitude,
                                  df_linha[k].longitude) <= raio_km)
              <=> (\E i \in 1..Len(df_filtrada) : df_filtrada[i] = df_linha[k])

\* A bus at distance 0 is kept and a bus beyond the radius is dropped.
C7_Witness ==
    /\ PipelineFeito
    /\ tem_distancia
    /\ \E i \in 1..Len(df_filtrada) : df_filtrada[i].distancia_km = 0
    /\ \E k \in 1..Len(df_linha) : df_linha[k].distancia_km > raio_km

\* C8: the line of every row of the result set contains the query as a
\* literal, case-sensitive substring.
C8_LinhaContemConsulta ==
    \A i \in 1..Len(df_filtrada) :
        SubstringLiteral(df_filtrada[i].linha, linha_desejada)

\* C9: a cycle with a non-empty result set (with a parsed timestamp)
\* displays its rows, ordered by distance ascending when distances were
\* computed and in the recency order of the result set otherwise.
C9_OrdemFinal ==
    (pc = "fim" /\ df_filtrada # <<>> /\ ~TempoRecenteFalha(df_filtrada)) =>
        IF tem_distancia
        THEN /\ Len(df_display) = Len(df_filtrada)
             /\ \A i \in 1..Len(df_filtrada) :
                   \E j \in 1..Len(df_display) : df_display[j] = df_filtrada[i]
             /\ \A i, j \in 1..Len(df_display) :
                   i < j => df_display[i].distancia_km <= df_display[j].distancia_km
        ELSE /\ df_display = df_filtrada
             /\ \A i, j \in 1..Len(df_display) :
                   i < j => DatahoraNaoDepois(df_display[i].datahora,
                                              df_display[j].datahora)

\* C10: the stored device location changes only to a non-pending value
\* returned by the component in browser mode, or to pending in a cycle with
\* the address or the coordinates as source; every such cycle resets it and
\* a pending component value leaves it alone.  The browser branch of the
\* filter runs only with the stored success value as its centre.
C10_PassoGeo ==
    /\ geo_result' # geo_result =>
          \/ /\ location_source' = Browser
             /\ componente' = geo_result'
             /\ geo_result'.status # "pending"
          \/ /\ location_source' \in {Endereco, Coordenadas}
             /\ geo_result' = Pending
    /\ (pc = "sidebar" /\ location_source' \in {Endereco, Coordenadas}) =>
          geo_result' = Pending
    /\ (pc = "sidebar" /\ location_source' = Browser /\ componente' = Pending) =>
          geo_result' = geo_result

C10_FiltroSoComSucesso ==
    /\ session_location_source # Browser => geo_result = Pending
    /\ (PipelineFeito /\ tem_distancia /\ location_source = Browser) =>
          /\ geo_result.status = "success"
          /\ user_lat = geo_result.latitude
          /\ user_lon = geo_result.longitude

C10_GeoResult == [][C10_PassoGeo]_vars /\ []C10_FiltroSoComSucesso

\* A cycle in browser mode whose component still answers pending filters
\* with the device location stored by an earlier cycle.
C10_Witness ==
    /\ PipelineFeito
    /\ tem_distancia
    /\ location_source = Browser
    /\ componente = Pending
    /\ geo_result = SucessoGeo

====
